---- MODULE Spec2Model ----
(***************************************************************************)
(* Model of the Eaglesong CPU mining worker                                *)
(* (miner/src/worker/eaglesong.rs).                                        *)
(*                                                                         *)
(* One call of EaglesongCpu::run is one tick of the control loop.  A tick  *)
(* is two steps of the model, because the call into the native compute     *)
(* primitive (c_solve and its variants) is long-running, and the           *)
(* dispatcher and the seal consumer run concurrently with it:              *)
(*   Run          lines 98-105 and 123-128: the locals, the poll, the      *)
(*                run/stop decision, and either the sleep or the call of   *)
(*                solve (pc = "solving" while the primitive is in flight); *)
(*   SolveReturn  lines 80-92 and 105-121: the primitive returns, the seal *)
(*                is published, the report is made.                        *)
(* Time is counted in nanoseconds, the resolution of Instant/Duration.     *)
(* run keeps no Instant from one call to the next and only ever subtracts  *)
(* Instants, so the clock is read relative to the moment the current call  *)
(* of run began.                                                           *)
(***************************************************************************)
EXTENDS Integers, Sequences, FiniteSets

VARIABLES
    start,                  \* self.start
    pow_info,               \* self.pow_info: None or <<pow_hash, target>>
    seal_candidates_found,  \* self.seal_candidates_found
    arch,                   \* self.arch
    worker_rx,              \* messages queued in the worker's control channel
    worker_tx_alive,        \* the dispatcher still holds the Sender of worker_rx
    seal_tx,                \* seals delivered into the result channel, in order
    seal_rx_alive,          \* the consumer still holds the Receiver of seal_tx
    state_update_counter,   \* local of run: work units accumulated
    start_instant,          \* local of run: `start`, the window start Instant
    now,                    \* the clock: nanoseconds since this tick began
    elapsed,                \* local of run: start.elapsed() after solve
    pc,                     \* "idle" | "solving" | "panicked"
    solve_call,             \* arguments of the solve call of this tick, or NoCall
    msg,                    \* what try_recv gave in this tick
    was_start,              \* self.start as it was when this tick began
    nonce,                  \* nonce returned by the primitive in this tick
    seal,                   \* the Seal constructed in this tick, or NoSeal
    send_result,            \* "none" | "ok" | "err": seal_tx.send of this tick
    report,                 \* the status report emitted in this tick, or NoReport
    slept,                  \* nanoseconds slept in this tick
    new_work_in_flight,     \* a NewWork for another pow_hash was enqueued
                            \* while this tick's solve call was in flight
    entry,                  \* the primitive entered by this tick's solve call
    sent,                   \* log: every message the dispatcher has sent
    applied,                \* log: every message a poll has applied
    ticks                   \* log: calls of run so far, counted up to MaxSent

vars == <<start, pow_info, seal_candidates_found, arch, worker_rx,
          worker_tx_alive, seal_tx, seal_rx_alive, state_update_counter,
          start_instant, now, elapsed, pc, solve_call, msg, was_start, nonce, seal,
          send_result, report, slept, new_work_in_flight, entry, sent,
          applied, ticks>>

\* the logs; only the specifications that keep a log change them
logs == <<sent, applied, ticks>>

----------------------------------------------------------------------------
(* Bounds of the model *)

\* work items the dispatcher may hand out, each with its own pow_hash
\* (standing for a 32-byte digest) and target (a 256-bit threshold)
MaxWork == 2
\* arch values 0..MaxArch; 0, 1, 2 select a primitive, larger ones none
MaxArch == 3
\* messages that may wait in the control channel at once
MaxQueue == 2
\* candidates a worker finds before the primitive only returns nonce 0
MaxFound == 1
\* work units returned by a call of the primitive that did any work
MaxNs == 1
\* messages a dispatcher sends in all, where the messages sent are logged
MaxSent == 3

(* Program constants *)

STATE_UPDATE_DURATION_MILLIS == 300
SLEEP_MILLIS == 100
NONCE_LEN == 16

NanosPerMilli == 1000 * 1000
NanosPerSec == 1000 * NanosPerMilli

None == <<>>
NoCall == <<>>
NoSeal == <<>>
NoReport == <<>>
NoNonce == -1

WorkItems == {<<h, MaxWork + h>> : h \in 1..MaxWork}
Archs == 0..MaxArch

\* what try_recv gives when it gives no message: Err(Empty), Err(Disconnected)
NoMsg == [type |-> "None", err |-> "Empty"]
Gone == [type |-> "None", err |-> "Disconnected"]
NoTick == [type |-> "NoTick"]
Start == [type |-> "Start"]
Stop == [type |-> "Stop"]
NewWork(w) == [type |-> "NewWork", pow_info |-> w]
WorkerMessage == {Start, Stop} \cup {NewWork(w) : w \in WorkItems}

\* Duration::from_millis
FromMillis(ms) == ms * NanosPerMilli

\* Durations a call of the primitive may take: below the report threshold,
\* between 300 and 301 whole milliseconds, and 301 milliseconds.
SolveDurations ==
    {FromMillis(100), FromMillis(300) + NanosPerMilli \div 2, FromMillis(301)}

\* The nonce buffers the primitive may leave behind: untouched (all zero),
\* or a nonce whose two low bytes are set
NonceBuffers ==
    {[i \in 1..NONCE_LEN |-> 0],
     [i \in 1..NONCE_LEN |-> IF i <= 2 THEN 1 ELSE 0]}

Throughputs == {0, MaxNs}

----------------------------------------------------------------------------
(* poll_worker_message *)

\* self.worker_rx.try_recv(): Ok(head) when a message is queued; otherwise
\* Err(Empty), or Err(Disconnected) once the sender is gone
TryRecv(q) ==
    IF Len(q) > 0 THEN Head(q)
    ELSE IF worker_tx_alive THEN NoMsg
    ELSE Gone

\* mutant: the poll empties the channel and applies only the first message
AfterRecvDrain(q) == <<>>

AfterRecv(q) == IF Len(q) > 0 THEN Tail(q) ELSE q

\* mutant: new work also switches the worker on
PollStartOnNewWork(m, s) ==
    IF m = Stop THEN FALSE
    ELSE IF m = Start \/ m.type = "NewWork" THEN TRUE
    ELSE s

\* mutant: a Stop does not clear the flag of a worker that is running
PollStartSticky(m, s) == s \/ m = Start

\* mutant: a worker whose dispatcher is gone stops
PollStartStopWhenGone(m, s) ==
    IF m = Stop \/ m = Gone THEN FALSE
    ELSE IF m = Start THEN TRUE
    ELSE s

PollStart(m, s) ==
    IF m = Stop THEN FALSE
    ELSE IF m = Start THEN TRUE
    ELSE s

\* mutant: Stop drops the work held
PollPowInfoClearOnStop(m, p) ==
    IF m.type = "NewWork" THEN m.pow_info
    ELSE IF m = Stop THEN None
    ELSE p

\* mutant: new work is taken only by a worker that holds none
PollPowInfoKeepFirst(m, p) ==
    IF m.type = "NewWork" /\ p = None THEN m.pow_info ELSE p

PollPowInfo(m, p) ==
    IF m.type = "NewWork" THEN m.pow_info ELSE p

----------------------------------------------------------------------------
(* solve *)

\* mutant: the match has a catch-all arm that runs a primitive
ArchValidAny(a) == TRUE

ArchValid(a) == a \in {0, 1, 2}

NoEntry == "none"

\* mutant: the two vector entry points are swapped
EntryPointSwapped(a) ==
    CASE a = 0 -> "c_solve"
      [] a = 1 -> "c_solve_avx512"
      [] a = 2 -> "c_solve_avx2"
      [] OTHER -> NoEntry

\* match self.arch: the extern "C" function a call of solve enters
EntryPoint(a) ==
    CASE a = 0 -> "c_solve"
      [] a = 1 -> "c_solve_avx2"
      [] a = 2 -> "c_solve_avx512"
      [] OTHER -> NoEntry

RECURSIVE LeSum(_, _)
LeSum(buf, i) ==
    IF i > Len(buf) THEN 0 ELSE buf[i] + 256 * LeSum(buf, i + 1)

\* u128::from_le_bytes
FromLeBytes(buf) == LeSum(buf, 1)

\* mutant: every returned nonce is taken for a candidate
FoundSealAlways(n) == TRUE

FoundSeal(n) == n # 0

\* mutant: the seal is stamped with the newest work known, queued or held
MakeSealNewestWork(pow_hash, n) ==
    LET queued == SelectSeq(worker_rx, LAMBDA x : x.type = "NewWork")
    IN  IF Len(queued) > 0
        THEN <<queued[Len(queued)].pow_info[1], n>>
        ELSE <<pow_hash, n>>

MakeSeal(pow_hash, n) == <<pow_hash, n>>

\* self.seal_tx.send(..): delivered unless the receiver is gone
SendSeal(chan, s) == IF seal_rx_alive THEN Append(chan, s) ELSE chan

SendResult == IF seal_rx_alive THEN "ok" ELSE "err"

\* mutant: the result of the send is unwrapped, and an Err panics
AfterSendUnwrap(result) == IF result = "err" THEN "panicked" ELSE "idle"

\* `if let Err(err) = ..send(..) { error!(..) }`: solve goes on, and the
\* tick runs to its end, whatever the send gave
AfterSend(result) == "idle"

\* mutant: a candidate is counted only when its send succeeded
CandidatesAfterIfSent(found, n) ==
    IF FoundSeal(n) /\ seal_rx_alive THEN found + 1 ELSE found

CandidatesAfter(found, n) == IF FoundSeal(n) THEN found + 1 ELSE found

----------------------------------------------------------------------------
(* run *)

\* mutant: a worker without work solves against a default work item
CurrentWorkOrDefault(p) == IF p = None THEN <<0, 0>> ELSE p

\* mutant: the tick solves against the work held before its poll
CurrentWorkBeforePoll(p) == pow_info

\* the work the tick solves against: self.pow_info.clone()
CurrentWork(p) == p

\* Instant::elapsed
Elapsed(since, t) == t - since

\* Duration::as_millis: whole milliseconds
AsMillis(d) == d \div NanosPerMilli

AsSecs(d) == d \div NanosPerSec

SubsecNanos(d) == d % NanosPerSec

\* mutant: the report is due at the threshold, not past it
ReportDueAtThreshold(d) == AsMillis(d) >= STATE_UPDATE_DURATION_MILLIS

ReportDue(d) == AsMillis(d) > STATE_UPDATE_DURATION_MILLIS

\* numerator and denominator (nanoseconds) of the hash rate, and the seals
\* found, as formatted into the progress bar message
MakeReport(counter, d, found) ==
    [units |-> counter,
     elapsed_nanos |-> AsSecs(d) * NanosPerSec + SubsecNanos(d),
     found |-> found]

\* mutant: the report does not clear the accumulated work units
CounterKeptAfterReport(counter) == counter

CounterAfterReport(counter) == 0

\* mutant: a stopped worker does not sleep
SleepDurationZero == FromMillis(0)

\* thread::sleep(Duration::from_millis(100))
SleepDuration == FromMillis(SLEEP_MILLIS)

\* mutant: a running worker without work sleeps too
SleepOfIdle(s, w) == IF s /\ w # None THEN FromMillis(0) ELSE SleepDuration

\* the time a tick sleeps: only the else branch of `if self.start` sleeps
SleepOf(s, w) == IF s THEN FromMillis(0) ELSE SleepDuration

StartAfterReport(old, t) == t

----------------------------------------------------------------------------

\* mutant: a worker is constructed stopped
InitStopped ==
    /\ start = FALSE
    /\ pow_info = None
    /\ seal_candidates_found = 0
    /\ arch \in Archs
    /\ worker_rx = <<>>
    /\ worker_tx_alive = TRUE
    /\ seal_tx = <<>>
    /\ seal_rx_alive = TRUE
    /\ state_update_counter = 0
    /\ start_instant = 0
    /\ now = 0
    /\ elapsed = 0
    /\ pc = "idle"
    /\ solve_call = NoCall
    /\ msg = NoTick
    /\ was_start = FALSE
    /\ nonce = NoNonce
    /\ seal = NoSeal
    /\ send_result = "none"
    /\ report = NoReport
    /\ slept = 0
    /\ new_work_in_flight = FALSE
    /\ entry = NoEntry
    /\ sent = <<>>
    /\ applied = <<>>
    /\ ticks = 0

Init ==
    /\ start = TRUE
    /\ pow_info = None
    /\ seal_candidates_found = 0
    /\ arch \in Archs
    /\ worker_rx = <<>>
    /\ worker_tx_alive = TRUE
    /\ seal_tx = <<>>
    /\ seal_rx_alive = TRUE
    /\ state_update_counter = 0
    /\ start_instant = 0
    /\ now = 0
    /\ elapsed = 0
    /\ pc = "idle"
    /\ solve_call = NoCall
    /\ msg = NoTick
    /\ was_start = TRUE
    /\ nonce = NoNonce
    /\ seal = NoSeal
    /\ send_result = "none"
    /\ report = NoReport
    /\ slept = 0
    /\ new_work_in_flight = FALSE
    /\ entry = NoEntry
    /\ sent = <<>>
    /\ applied = <<>>
    /\ ticks = 0

\* run, up to the call of solve or to the end of the tick
Run ==
    /\ pc = "idle"
    /\ LET m == TryRecv(worker_rx)
           s == PollStart(m, start)
           p == PollPowInfo(m, pow_info)
           w == CurrentWork(p)
       IN  /\ msg' = m
           /\ was_start' = start
           /\ worker_rx' = AfterRecv(worker_rx)
           /\ start' = s
           /\ pow_info' = p
           /\ state_update_counter' = 0
           /\ start_instant' = 0
           /\ elapsed' = 0
           /\ nonce' = NoNonce
           /\ seal' = NoSeal
           /\ send_result' = "none"
           /\ report' = NoReport
           /\ new_work_in_flight' = FALSE
           /\ slept' = SleepOf(s, w)
           /\ now' = start_instant' + slept'
           /\ IF s /\ w # None
              THEN /\ solve_call' = w
                   /\ entry' = EntryPoint(arch)
                   /\ pc' = "solving"
              ELSE /\ solve_call' = NoCall
                   /\ entry' = NoEntry
                   /\ pc' = "idle"
    /\ UNCHANGED <<seal_candidates_found, arch, worker_tx_alive, seal_tx,
                   seal_rx_alive>>

\* solve and the rest of run: the primitive returns after dur nanoseconds
\* with buf in the nonce buffer and ns work units done
SolveReturn(buf, ns, dur) ==
    /\ pc = "solving"
    /\ ArchValid(arch)
    /\ FoundSeal(FromLeBytes(buf)) => seal_candidates_found < MaxFound
    /\ LET n == FromLeBytes(buf)
           pow_hash == solve_call[1]
           found == CandidatesAfter(seal_candidates_found, n)
           counter == state_update_counter + ns
       IN  /\ now' = now + dur
           /\ elapsed' = Elapsed(start_instant, now')
           /\ nonce' = n
           /\ IF FoundSeal(n)
              THEN /\ seal' = MakeSeal(pow_hash, n)
                   /\ seal_tx' = SendSeal(seal_tx, seal')
                   /\ send_result' = SendResult
              ELSE /\ UNCHANGED <<seal, seal_tx, send_result>>
           /\ seal_candidates_found' = found
           /\ IF ReportDue(elapsed')
              THEN /\ report' = MakeReport(counter, elapsed', found)
                   /\ state_update_counter' = CounterAfterReport(counter)
                   /\ start_instant' = StartAfterReport(start_instant, now')
              ELSE /\ report' = NoReport
                   /\ state_update_counter' = counter
                   /\ start_instant' = start_instant
           /\ pc' = AfterSend(send_result')
    /\ UNCHANGED <<start, pow_info, arch, worker_rx, worker_tx_alive,
                   seal_rx_alive, solve_call, msg, was_start, slept,
                   new_work_in_flight, entry>>

\* solve with an arch that selects no primitive: unreachable!() panics
SolveUnreachable ==
    /\ pc = "solving"
    /\ ~ArchValid(arch)
    /\ pc' = "panicked"
    /\ UNCHANGED <<start, pow_info, seal_candidates_found, arch, worker_rx,
                   worker_tx_alive, seal_tx, seal_rx_alive,
                   state_update_counter, start_instant, now, elapsed, solve_call, msg,
                   was_start, nonce, seal, send_result, report, slept,
                   new_work_in_flight, entry>>

\* the dispatcher sends a message to the worker
Send(m) ==
    /\ worker_tx_alive
    /\ pc # "panicked"
    /\ Len(worker_rx) < MaxQueue
    /\ worker_rx' = Append(worker_rx, m)
    /\ new_work_in_flight' =
          (new_work_in_flight \/
             (pc = "solving" /\ m.type = "NewWork" /\ m.pow_info # pow_info))
    /\ UNCHANGED <<start, pow_info, seal_candidates_found, arch,
                   worker_tx_alive, seal_tx, seal_rx_alive,
                   state_update_counter, start_instant, now, elapsed, pc,
                   solve_call, msg, was_start, nonce, seal, send_result,
                   report, slept, entry>>

\* the dispatcher exits: the control channel is disconnected
DropSender ==
    /\ worker_tx_alive
    /\ worker_tx_alive' = FALSE
    /\ UNCHANGED <<start, pow_info, seal_candidates_found, arch, worker_rx,
                   seal_tx, seal_rx_alive, state_update_counter,
                   start_instant, now, elapsed, pc, solve_call, msg, was_start, nonce,
                   seal, send_result, report, slept,
                   new_work_in_flight, entry>>

\* the seal consumer exits: the result channel is disconnected
DropReceiver ==
    /\ seal_rx_alive
    /\ seal_rx_alive' = FALSE
    /\ UNCHANGED <<start, pow_info, seal_candidates_found, arch, worker_rx,
                   worker_tx_alive, seal_tx, state_update_counter,
                   start_instant, now, elapsed, pc, solve_call, msg, was_start, nonce,
                   seal, send_result, report, slept,
                   new_work_in_flight, entry>>

Next ==
    \/ Run /\ UNCHANGED logs
    \/ \E buf \in NonceBuffers, ns \in Throughputs, dur \in SolveDurations :
          SolveReturn(buf, ns, dur) /\ UNCHANGED logs
    \/ SolveUnreachable /\ UNCHANGED logs
    \/ \E m \in WorkerMessage : Send(m) /\ UNCHANGED logs
    \/ DropReceiver /\ UNCHANGED logs

\* the worker, a dispatcher that outlives it, and the seal consumer
Spec == Init /\ [][Next]_vars

NextDisconnect ==
    \/ Run /\ UNCHANGED logs
    \/ \E buf \in NonceBuffers, ns \in Throughputs, dur \in SolveDurations :
          SolveReturn(buf, ns, dur) /\ UNCHANGED logs
    \/ SolveUnreachable /\ UNCHANGED logs
    \/ \E m \in WorkerMessage : Send(m) /\ UNCHANGED logs
    \/ DropSender /\ UNCHANGED logs

\* the worker, a dispatcher that may exit, and a seal consumer that stays
SpecDisconnect == Init /\ [][NextDisconnect]_vars

----------------------------------------------------------------------------
(* The worker with its messages logged: a worker built with a valid arch,  *)
(* a dispatcher that sends MaxSent messages at most, and a primitive that  *)
(* returns after 100 ms.                                                   *)

InitLogged == Init /\ ArchValid(arch)

\* run, logging the message its poll applied
RunLogged ==
    /\ Run
    /\ applied' = (IF msg'.type # "None" THEN Append(applied, msg')
                                         ELSE applied)
    /\ ticks' = (IF ticks < MaxSent THEN ticks + 1 ELSE ticks)
    /\ UNCHANGED sent

SolveReturnLogged ==
    /\ \E buf \in NonceBuffers :
          SolveReturn(buf, MaxNs, FromMillis(SLEEP_MILLIS))
    /\ UNCHANGED logs

SendLogged(m) ==
    /\ Len(sent) < MaxSent
    /\ Send(m)
    /\ sent' = Append(sent, m)
    /\ UNCHANGED <<applied, ticks>>

NextLogged ==
    \/ RunLogged
    \/ SolveReturnLogged
    \/ \E m \in WorkerMessage : SendLogged(m)

SpecLogged == InitLogged /\ [][NextLogged]_vars

\* the logged worker ticked forever: its owner calls run again and again,
\* and the primitive is a bounded synchronous computation that returns
SpecLive ==
    /\ InitLogged
    /\ [][NextLogged]_vars
    /\ WF_vars(RunLogged)
    /\ WF_vars(SolveReturnLogged)

----------------------------------------------------------------------------
(* Properties *)

\* a step of Run: the worker, idle, takes what try_recv gives it
Ticked ==
    /\ pc = "idle"
    /\ worker_rx' = AfterRecv(worker_rx)
    /\ msg' = TryRecv(worker_rx)
    /\ seal_rx_alive' = seal_rx_alive
    /\ worker_tx_alive' = worker_tx_alive

\* a step of SolveReturn: the primitive returns
Returned == pc = "solving" /\ pc' = "idle"

\* a tick has run to its end, and the per-tick variables describe it
TickDone == pc = "idle" /\ msg # NoTick

\* C1: in every tick where the primitive returns a non-zero nonce, one Seal
\* is built from the pow_hash of the call and that nonce, it is handed to
\* the result channel once (delivered when the receiver is alive, refused
\* otherwise), and seal_candidates_found grows by exactly 1 either way.
C1_OneSealPerNonce ==
    [][(Returned /\ nonce' # 0) =>
          /\ seal' = <<solve_call[1], nonce'>>
          /\ send_result' = (IF seal_rx_alive THEN "ok" ELSE "err")
          /\ seal_tx' = (IF seal_rx_alive THEN Append(seal_tx, seal')
                                          ELSE seal_tx)
          /\ seal_candidates_found' = seal_candidates_found + 1]_vars

\* a candidate was found, its send failed, and it was counted
C1_Witness ==
    /\ TickDone
    /\ nonce > 0
    /\ seal = <<solve_call[1], nonce>>
    /\ send_result = "err"
    /\ seal_tx = <<>>
    /\ seal_candidates_found = 1

\* C2: while a solve call is in flight pow_info does not change, whatever
\* is enqueued meanwhile, and the seal the call produces carries the
\* pow_hash of the work that was held when the call started; pow_info only
\* changes in the poll of a tick.
C2_SealOfWorkAtCall ==
    [][/\ pc = "solving" =>
            /\ pow_info' = pow_info
            /\ (Returned /\ seal' # NoSeal) => seal'[1] = pow_info[1]
       /\ pow_info' # pow_info => Ticked]_vars

\* a seal was sent for the work held at the call although a NewWork for
\* another pow_hash arrived during the call and still waits in the channel
C2_Witness ==
    /\ TickDone
    /\ seal # NoSeal
    /\ send_result = "ok"
    /\ new_work_in_flight
    /\ seal[1] = pow_info[1]
    /\ \E i \in 1..Len(worker_rx) :
          /\ worker_rx[i].type = "NewWork"
          /\ worker_rx[i].pow_info[1] # seal[1]

\* C3: applying Stop or Start leaves pow_info as it is; pow_info only ever
\* changes to the work of a NewWork being applied; and the tick that applies
\* Start to a stopped worker holding work issues a solve call with exactly
\* that work (pow_hash and target).
C3_WorkKeptOverStopStart ==
    [][/\ (Ticked /\ TryRecv(worker_rx) \in {Stop, Start}) =>
             pow_info' = pow_info
       /\ pow_info' # pow_info =>
             /\ Ticked
             /\ TryRecv(worker_rx).type = "NewWork"
             /\ pow_info' = TryRecv(worker_rx).pow_info
       /\ (Ticked /\ ~start /\ TryRecv(worker_rx) = Start
             /\ pow_info # None) =>
             /\ pc' = "solving"
             /\ solve_call' = pow_info]_vars

\* a stopped worker holding work was started and solves against that work
C3_Witness ==
    /\ pc = "solving"
    /\ msg = Start
    /\ ~was_start
    /\ pow_info # None
    /\ solve_call = pow_info

\* C4: a NewWork applied while stopped sets pow_info in that tick and the
\* tick issues no solve call; no solve call is issued while start is false;
\* and start only becomes true by applying Start.
C4_NewWorkWhileStopped ==
    [][/\ (Ticked /\ ~start /\ TryRecv(worker_rx).type = "NewWork") =>
             /\ pow_info' = TryRecv(worker_rx).pow_info
             /\ ~start'
             /\ pc' = "idle"
             /\ solve_call' = NoCall
       /\ ~start' => (pc' # "solving" /\ solve_call' = NoCall)
       /\ (~start /\ start') => (Ticked /\ TryRecv(worker_rx) = Start)]_vars

\* a stopped worker took new work and issued no solve call
C4_Witness ==
    /\ TickDone
    /\ msg.type = "NewWork"
    /\ ~was_start
    /\ ~start
    /\ pow_info = msg.pow_info
    /\ solve_call = NoCall

\* C5: as long as pow_info is unset no solve call is issued, running or
\* not: the tick ends without a call, a seal, a send or a report.
C5_NoSolveWithoutWork ==
    pow_info = None =>
        /\ pc = "idle"
        /\ solve_call = NoCall
        /\ nonce = NoNonce
        /\ seal = NoSeal
        /\ send_result = "none"
        /\ seal_tx = <<>>
        /\ report = NoReport

\* a running worker without work has run a tick
C5_Witness ==
    /\ TickDone
    /\ start
    /\ msg = Start
    /\ pow_info = None

\* C6: in every tick where the primitive returns nonce 0, no seal is built
\* or sent and seal_candidates_found is unchanged.
C6_NoSealForZeroNonce ==
    [][(Returned /\ nonce' = 0) =>
          /\ seal' = NoSeal
          /\ send_result' = "none"
          /\ seal_tx' = seal_tx
          /\ seal_candidates_found' = seal_candidates_found]_vars

\* Scenario A: the first solve call returned nonce 0
C6_Witness ==
    /\ TickDone
    /\ solve_call # NoCall
    /\ nonce = 0
    /\ seal_tx = <<>>
    /\ seal_candidates_found = 0

\* C7: a tick that leaves the worker stopped after its poll issues no solve
\* call, sends no seal, emits no report, and sleeps 100 ms before it ends.
C7_StoppedTickSleeps ==
    (TickDone /\ ~start) =>
        /\ solve_call = NoCall
        /\ nonce = NoNonce
        /\ seal = NoSeal
        /\ send_result = "none"
        /\ report = NoReport
        /\ slept = FromMillis(SLEEP_MILLIS)
        /\ Elapsed(start_instant, now) = FromMillis(SLEEP_MILLIS)

\* Scenario C: a tick applied Stop
C7_Witness ==
    /\ TickDone
    /\ msg = Stop
    /\ was_start
    /\ ~start
    /\ slept = FromMillis(SLEEP_MILLIS)

\* C8: throughput accounting never resets while the worker is continuously
\* Running-Solving: when a tick that solved and emitted no report is
\* followed by a tick that solves again, the work units accumulated so far
\* are carried into it.
C8_AccumulatesAcrossTicks ==
    [][(Ticked /\ nonce # NoNonce /\ report = NoReport /\ pc' = "solving")
          => state_update_counter' = state_update_counter]_vars

\* C9: right after a report, and at the end of every tick that leaves the
\* worker stopped, the accumulated count is zero and the window start is
\* the time of the reset (the time of the report; the time the sleep began).
C9_WindowReset ==
    /\ (TickDone /\ report # NoReport) =>
          /\ state_update_counter = 0
          /\ start_instant = now
    /\ (TickDone /\ ~start) =>
          /\ state_update_counter = 0
          /\ start_instant = now - slept

\* a report of a non-zero count was emitted, and the count is cleared
C9_Witness ==
    /\ TickDone
    /\ report # NoReport
    /\ report.units > 0
    /\ state_update_counter = 0
    /\ start_instant = now

\* C10 as claimed: a report is emitted in a tick iff the worker is running,
\* holds work, has completed the solve call and the time elapsed since the
\* window start strictly exceeds 300 ms; it carries the candidates found.
C10_ReportIffElapsedExceeds ==
    TickDone =>
        /\ report # NoReport <=>
              /\ start
              /\ pow_info # None
              /\ nonce # NoNonce
              /\ elapsed > FromMillis(STATE_UPDATE_DURATION_MILLIS)
        /\ report # NoReport => report.found = seal_candidates_found

\* C10 amended: ... and the time elapsed since the window start, in whole
\* milliseconds, exceeds 300, that is, it is at least 301 ms.
C10_ReportIffWholeMillisExceed ==
    TickDone =>
        /\ report # NoReport <=>
              /\ start
              /\ pow_info # None
              /\ nonce # NoNonce
              /\ elapsed >= FromMillis(STATE_UPDATE_DURATION_MILLIS + 1)
        /\ report # NoReport =>
              /\ report.found = seal_candidates_found
              /\ report.elapsed_nanos = elapsed

\* a report that counts the candidate found in the same tick
C10_Witness ==
    /\ TickDone
    /\ report # NoReport
    /\ nonce > 0
    /\ elapsed = FromMillis(STATE_UPDATE_DURATION_MILLIS + 1)
    /\ report.found = 1
    /\ seal_candidates_found = 1

\* C11: a tick takes at most one message out of the channel, so after n
\* ticks at most n messages have been applied; the messages applied are a
\* prefix of the messages sent, in the order sent, and the rest still wait
\* in the channel in that order.
C11_AppliedInOrder ==
    /\ Len(applied) <= ticks
    /\ Len(sent) - Len(worker_rx) <= ticks
    /\ Len(applied) <= Len(sent)
    /\ applied = SubSeq(sent, 1, Len(applied))
    /\ applied \o worker_rx = sent

\* two ticks applied the first two of three messages sent, in order, and
\* the third still waits
C11_Witness ==
    /\ ticks = 2
    /\ Len(sent) = 3
    /\ applied = <<sent[1], sent[2]>>
    /\ sent[1] # sent[2]
    /\ worker_rx = <<sent[3]>>

\* C12: applying NewWork(item) sets pow_info to item, whatever the worker
\* held and whether it runs or not, and leaves start,
\* seal_candidates_found and arch as they were.
C12_NewWorkReplaces ==
    [][(Ticked /\ TryRecv(worker_rx).type = "NewWork") =>
          /\ pow_info' = TryRecv(worker_rx).pow_info
          /\ start' = start
          /\ seal_candidates_found' = seal_candidates_found
          /\ arch' = arch]_vars

\* a running worker that had sent a seal for other work took the new work
C12_Witness ==
    /\ msg.type = "NewWork"
    /\ pow_info = msg.pow_info
    /\ start
    /\ was_start
    /\ seal_tx # <<>>
    /\ seal_tx[1][1] # pow_info[1]
    /\ seal_candidates_found = 1

\* C13: a newly constructed worker runs, holds no work and has found
\* nothing, and it issues no solve call while no message has been applied;
\* once NewWork messages, and no Start, have been applied, it solves
\* against the work of the last of them.
C13_StartsRunningWithoutWork ==
    /\ applied = <<>> =>
          /\ start
          /\ pow_info = None
          /\ seal_candidates_found = 0
          /\ solve_call = NoCall
          /\ pc = "idle"
    /\ (applied # <<>>
          /\ \A i \in 1..Len(applied) : applied[i].type = "NewWork") =>
          /\ start
          /\ pow_info = applied[Len(applied)].pow_info
          /\ solve_call = pow_info

\* a tick without a message, then the tick that applied the only message
\* sent, a NewWork, and called solve
C13_Witness ==
    /\ ticks = 2
    /\ Len(sent) = 1
    /\ applied = sent
    /\ applied[1].type = "NewWork"
    /\ msg = applied[1]
    /\ pc = "solving"
    /\ solve_call = applied[1].pow_info

C15_DisconnectedLikeEmpty ==
    [][(Ticked /\ worker_rx = <<>>) =>
          /\ start' = start
          /\ pow_info' = pow_info
          /\ (start /\ pow_info # None) =>
                (pc' = "solving" /\ solve_call' = pow_info /\ slept' = 0)
          /\ (start /\ pow_info = None) =>
                (pc' = "idle" /\ solve_call' = NoCall /\ slept' = 0)
          /\ ~start =>
                (pc' = "idle" /\ solve_call' = NoCall
                   /\ slept' = FromMillis(SLEEP_MILLIS))]_vars

\* the poll found the channel disconnected, and the worker solves against
\* the work it holds
C15_Witness ==
    /\ ~worker_tx_alive
    /\ msg = Gone
    /\ pc = "solving"
    /\ pow_info # None
    /\ solve_call = pow_info

\* C16: no step changes arch, and a solve call enters the primitive that
\* arch selects: c_solve for 0, c_solve_avx2 for 1, c_solve_avx512 for 2.
C16_ArchFixed ==
    [][/\ arch' = arch
       /\ pc' = "solving" =>
             /\ arch' = 0 => entry' = "c_solve"
             /\ arch' = 1 => entry' = "c_solve_avx2"
             /\ arch' = 2 => entry' = "c_solve_avx512"]_vars

\* a worker built with arch 2, stopped and started again, enters the
\* 512-bit primitive
C16_Witness ==
    /\ pc = "solving"
    /\ arch = 2
    /\ msg = Start
    /\ ~was_start
    /\ entry = "c_solve_avx512"

\* C17: the poll comes first in a tick and there is one poll per tick: a
\* Stop applied in a tick suppresses its solve call; a Start or NewWork
\* applied in a tick that leaves the worker running with work makes that
\* tick call solve against the work held after the poll; and nothing is
\* taken from the channel while the solve call is in flight.
C17_PollBeforeSolve ==
    [][/\ (Ticked /\ TryRecv(worker_rx) = Stop) =>
             (pc' = "idle" /\ solve_call' = NoCall)
       /\ (Ticked /\ TryRecv(worker_rx).type \in {"Start", "NewWork"}
             /\ start' /\ pow_info' # None) =>
             (pc' = "solving" /\ solve_call' = pow_info')
       /\ pc = "solving" =>
             /\ Len(worker_rx') >= Len(worker_rx)
             /\ SubSeq(worker_rx', 1, Len(worker_rx)) = worker_rx]_vars

\* the tick that applied the first NewWork calls solve against it at once
C17_Witness ==
    /\ pc = "solving"
    /\ msg.type = "NewWork"
    /\ was_start
    /\ solve_call = msg.pow_info
    /\ seal_candidates_found = 0
    /\ seal_tx = <<>>
    /\ worker_rx # <<>>

\* C18: only a stopped tick sleeps: while start is true the last tick has
\* not slept, and a tick of a running worker without work takes no time.
C18_SleepOnlyWhenStopped ==
    /\ start => slept = 0
    /\ (TickDone /\ start /\ pow_info = None) =>
          Elapsed(start_instant, now) = 0

\* a running worker without work ran a tick that found no message and
\* returned at once
C18_Witness ==
    /\ TickDone
    /\ msg = NoMsg
    /\ start
    /\ pow_info = None
    /\ slept = 0
    /\ now = start_instant

\* the message the dispatcher enqueued last, if it enqueued one
LastSent == IF sent = <<>> THEN NoMsg ELSE sent[Len(sent)]

\* C19: a worker ticked forever applies every message the dispatcher
\* enqueued; once the last enqueued message is a Stop the worker ends up
\* stopped for good with no solve call; while the last one is a Start and
\* work is held, solve calls keep coming.
C19_EveryMessageApplied ==
    /\ <>[](/\ applied = sent
            /\ LastSent = Stop =>
                  (~start /\ pc = "idle" /\ solve_call = NoCall))
    /\ []<>((LastSent = Start /\ pow_info # None) => pc = "solving")

\* the dispatcher's last message was a Stop, after work and solve calls,
\* and the worker has applied everything and stands stopped
C19_Witness ==
    /\ Len(sent) = MaxSent
    /\ applied = sent
    /\ LastSent = Stop
    /\ pow_info # None
    /\ seal_candidates_found > 0
    /\ ~start
    /\ TickDone

\* C20: a worker is built with any arch; with an arch other than 0, 1 and 2
\* it enters no primitive, gets no nonce, builds and sends no seal, never
\* raises seal_candidates_found and emits no report; the ticks it completes
\* are stopped or without work, and it panics only inside a solve call of
\* a tick that runs with work held.
C20_InvalidArchPanics ==
    /\ arch \notin {0, 1, 2} =>
          /\ entry = NoEntry
          /\ nonce = NoNonce
          /\ seal = NoSeal
          /\ seal_tx = <<>>
          /\ seal_candidates_found = 0
          /\ report = NoReport
          /\ TickDone => ~(start /\ pow_info # None)
    /\ pc = "panicked" =>
          /\ arch \notin {0, 1, 2}
          /\ start
          /\ pow_info # None
          /\ solve_call = pow_info

\* a worker with an unknown arch completed ticks without work and stopped
\* ticks, then was started with work held and panicked
C20_Witness ==
    /\ pc = "panicked"
    /\ arch \notin {0, 1, 2}
    /\ msg = Start
    /\ ~was_start
    /\ solve_call # NoCall
    /\ seal_candidates_found = 0

====
